---- MODULE Spec2Model ----
(***************************************************************************)
(* fws (File Watch Server): the watcher side (Reconciliation Loop), the    *)
(* signal-handling supervisor that runs it, and the remote end of the      *)
(* uploader's SCP push, which writes archives into the watched directory.  *)
(*                                                                         *)
(* File names are sequences of characters so that the ".tar" suffix test   *)
(* is computed as strings.HasSuffix computes it.  External commands        *)
(* (docker, hooks) succeed or fail nondeterministically, within what the   *)
(* container runtime allows for the state of the managed container name.   *)
(***************************************************************************)
EXTENDS Integers, Sequences, FiniteSets, TLC

\* ------------------------------------------------------------------ bounds

\* Things the environment does to the watcher: file operations in the watched
\* directory, header and data writes of uploads, fsnotify errors and channel
\* closes.
MaxEnvOps == 2

\* ------------------------------------------------------- program constants

\* time.Sleep(2 * time.Second) in handleFileEvent, in seconds.
DebounceSeconds == 2

\* strings.HasSuffix(event.Name, ".tar")
TarSuffix == <<".", "t", "a", "r">>

\* ------------------------------------------------------------ input domains

ArchiveA == <<"a", ".", "t", "a", "r">>
ArchiveB == <<"b", ".", "t", "a", "r">>
NotArchive == <<"a", ".", "t", "a", "r", ".", "g", "z">>

\* Files that can appear in the watched directory.
Paths == {ArchiveA, ArchiveB, NotArchive}

\* Files the uploader pushes: createTarball names them name_tag_timestamp.tar.
UploadPaths == {ArchiveA, ArchiveB}

\* fsnotify.Op is a bit mask: an event carries a set of operation kinds.  The
\* operation sets of the events the environment produces.
EventOps == {{"Create"}, {"Write"}, {"Remove"}, {"Rename"}, {"Chmod"},
             {"Write", "Chmod"}}

\* Hook commands: a command line is a sequence of characters.
CmdEcho == <<"e", "c", "h", "o">>
CmdBlank == <<" ", " ">>
Whitespace == {" ", "\t", "\n"}

\* The Hook Sets a configuration may carry (empty, or with a blank entry).
HookSets == {<<>>, <<CmdEcho, CmdBlank, CmdEcho>>}

\* The watcher configurations: no hooks, or both pre-load and post-load hooks.
Configs == {[preLoad |-> h, postLoad |-> h] : h \in HookSets}

\* The uploader configurations: each Hook Set empty or not, TarballPath set
\* or empty, RemoteKeyPath set or empty.
UploaderConfigs ==
    {[preBuild |-> h, postBuild |-> g, tarballDir |-> d, keyPath |-> k] :
        h \in HookSets, g \in HookSets, d \in BOOLEAN, k \in BOOLEAN}

\* The longest command list given to ExecuteCommands, and the commands in it.
MaxCmds == 3
Commands == {CmdEcho, CmdBlank}
CommandLists == UNION {[1..n -> Commands] : n \in 0..MaxCmds}

\* The most processes the shell of one command starts.  Each either keeps
\* the output pipe it inherited or has redirected its output.
MaxKids == 2
KidSets == UNION {[1..n -> [pipe : BOOLEAN]] : n \in 0..MaxKids}

\* Files given to scpUpload: a path (its components), the bytes, and the
\* permission bits as the three octal digits of Mode().Perm().
MaxBytes == 2
Bytes == {0, 1}
Contents == UNION {[1..n -> Bytes] : n \in 0..MaxBytes}
LocalPaths == {<<"a.tar">>, <<"out", "a.tar">>}
Perms == {<<6, 0, 0>>, <<6, 4, 4>>, <<6, 6, 4>>, <<0, 4, 4>>}
\* RemoteUploadPath, and the umask of the account on the remote host.
RemoteDir == <<"srv", "up">>
Umasks == {<<0, 2, 2>>, <<0, 0, 2>>}

\* ~/.ssh/known_hosts: missing, loaded by knownhosts.New, or not loadable.
KnownHosts == {"absent", "ok", "unloadable"}

\* config.ContainerName, and the names of the other containers of the host.
ContainerName == <<"a", "p", "p">>
OtherNames == {<<"a", "p", "p", "2">>, <<"d", "b">>}

\* The settings of WatcherConfig that startContainer uses: the restart
\* policy (empty or not), and the port, environment and volume lists.
Port80 == <<"8", "0", ":", "8", "0">>
Port443 == <<"4", "4", "3", ":", "4", "4", "3">>
EnvA == <<"A", "=", "1">>
VolumeD == <<"/", "d", ":", "/", "d">>
RestartAlways == <<"a", "l", "w", "a", "y", "s">>
RunConfigs ==
    [name : {ContainerName}, restart : {<<>>, RestartAlways},
     ports : {<<>>, <<Port80>>, <<Port80, Port443>>},
     env : {<<>>, <<EnvA>>}, volumes : {<<>>, <<VolumeD>>}]

\* The archives two cycles are started for: a path and the bytes in it.
Tarballs == [path : UploadPaths, content : {<<>>, <<1>>}]

\* ------------------------------------------------------------------- state

VARIABLES
    fs,          \* watched directory: path -> "absent" | "partial" | "complete"
    scp,         \* remote scp peer: [pc, path]
    events,      \* fsnotify Events channel (with the kernel queue behind it)
    errors,      \* number of errors pending on the fsnotify Errors channel
    chanClosed,  \* the fsnotify channels were closed
    ctxDone,     \* w.ctx was cancelled (Stop was called)
    runPc,       \* position of Watcher.Run
    active,      \* handleFileEvent invocations in progress (cycle records)
    nextId,      \* id of the next cycle
    ignored,     \* events handleFileEvent returned on without a cycle
    lastCycle,   \* the cycle that finished last, until the next one begins
    container,   \* the instance holding the managed container name
    cfg,         \* WatcherConfig: [preLoad, postLoad]
    errChan,     \* errChan: "empty" | "nil" | "err"
    supPc,       \* position of runWatcherWithSignalHandling
    alive,       \* the watcher process has not exited
    envOps,      \* environment operations performed so far
    up,          \* Uploader.Run: position, steps done, local archive, ssh client
    ucfg,        \* UploaderConfig: [preBuild, postBuild, tarballDir, keyPath]
    call,        \* a call of a utility function: its name and arguments
    ret          \* what the call returned and did

\* The state of the watcher's machine, and the state of the uploader's.
wvars == <<fs, scp, events, errors, chanClosed, ctxDone, runPc, active, nextId,
           ignored, lastCycle, container, cfg, errChan, supPc, alive, envOps>>
uvars == <<up, ucfg>>
xvars == <<call, ret>>

vars == <<fs, scp, events, errors, chanClosed, ctxDone, runPc, active, nextId,
          ignored, lastCycle, container, cfg, errChan, supPc, alive, envOps,
          up, ucfg, call, ret>>

\* ------------------------------------------------------------ pure helpers

\* strings.HasSuffix
HasSuffix(s, suffix) ==
    /\ Len(s) >= Len(suffix)
    /\ SubSeq(s, Len(s) - Len(suffix) + 1, Len(s)) = suffix

\* s has sub as a substring: strings.Contains, and the match of docker's
\* name filter.
Contains(s, sub) ==
    \E i \in 1..(Len(s) - Len(sub) + 1) : SubSeq(s, i, i + Len(sub) - 1) = sub

IsTarballContains(name) == Contains(name, TarSuffix)

\* handleFileEvent: "Only process .tar files".
IsTarball(name) == HasSuffix(name, TarSuffix)

IsCreateOnly(op) == "Create" \in op

IsCreateWriteOrRemove(op) == op \cap {"Create", "Write", "Remove"} # {}

\* handleFileEvent: event.Op&Create == Create || event.Op&Write == Write.
IsCreateOrWrite(op) == "Create" \in op \/ "Write" \in op

\* strings.TrimSpace(cmd) == ""
IsBlank(cmd) == \A i \in 1..Len(cmd) : cmd[i] \in Whitespace

\* utils.ExecuteCommands: run the non-blank commands in order and stop at the
\* first failure.  ok[i] is the outcome ExecuteCommand would have for
\* commands[i].  Returns the error flag and the indices actually executed.
\* Some command that was executed failed.
SomeFailed(ran, ok) == \E i \in 1..Len(ran) : ~ok[ran[i]]

RECURSIVE ExecuteCommandsKeepGoing(_, _, _, _)
ExecuteCommandsKeepGoing(commands, ok, i, ran) ==
    IF i > Len(commands) THEN [err |-> SomeFailed(ran, ok), ran |-> ran]
    ELSE IF IsBlank(commands[i]) THEN ExecuteCommandsKeepGoing(commands, ok, i + 1, ran)
    ELSE ExecuteCommandsKeepGoing(commands, ok, i + 1, Append(ran, i))

RECURSIVE ExecuteCommandsFrom(_, _, _, _)
ExecuteCommandsFrom(commands, ok, i, ran) ==
    IF i > Len(commands) THEN [err |-> FALSE, ran |-> ran]
    ELSE IF IsBlank(commands[i]) THEN ExecuteCommandsFrom(commands, ok, i + 1, ran)
    ELSE IF ~ok[i] THEN [err |-> TRUE, ran |-> Append(ran, i)]
    ELSE ExecuteCommandsFrom(commands, ok, i + 1, Append(ran, i))

ExecuteCommands(commands, ok) == ExecuteCommandsFrom(commands, ok, 1, <<>>)

ExecuteHooksEmptyFails(commands, ok) ==
    IF Len(commands) = 0 THEN [err |-> TRUE, ran |-> <<>>]
    ELSE ExecuteCommands(commands, ok)

\* executePreLoadCommands / executePostLoadCommands: an empty Hook Set returns
\* nil without calling ExecuteCommands.
ExecuteHooks(commands, ok) ==
    IF Len(commands) = 0 THEN [err |-> FALSE, ran |-> <<>>]
    ELSE ExecuteCommands(commands, ok)

Range(seq) == {seq[i] : i \in 1..Len(seq)}

\* ------------------------------------------------------ container runtime

NoInstance == [gen |-> 0, state |-> "absent"]
PriorInstance == [gen |-> 0, state |-> "running"]

\* "docker stop <name>": fails when no container has the name; a running
\* container is stopped unless the command fails (30 s timeout).
DockerStop(c, ok) ==
    IF c.state = "absent" THEN [err |-> TRUE, c |-> c]
    ELSE IF c.state = "running"
         THEN IF ok THEN [err |-> FALSE, c |-> [c EXCEPT !.state = "exited"]]
              ELSE [err |-> TRUE, c |-> c]
    ELSE [err |-> FALSE, c |-> c]

\* "docker rm <name>": fails when no container has the name and when the
\* container is still running.
DockerRm(c, ok) ==
    IF c.state \in {"absent", "running"} THEN [err |-> TRUE, c |-> c]
    ELSE IF ok THEN [err |-> FALSE, c |-> NoInstance]
    ELSE [err |-> TRUE, c |-> c]

\* "docker run -d --name <name> ...": fails while the name is taken; otherwise
\* it starts a new instance, fails before creating one, or creates one that
\* fails to start (out \in {"ok", "nocreate", "nostart"}).
DockerRun(c, id, out) ==
    IF c.state # "absent" THEN [err |-> TRUE, c |-> c]
    ELSE IF out = "ok" THEN [err |-> FALSE, c |-> [gen |-> id, state |-> "running"]]
    ELSE IF out = "nostart" THEN [err |-> TRUE, c |-> [gen |-> id, state |-> "created"]]
    ELSE [err |-> TRUE, c |-> c]

RunOutcomes == {"ok", "nocreate", "nostart"}

\* --------------------------------------------------------- cycle records

\* No burst is known.
NoBurst == 0 - 1

NoCycle == [id |-> 0, path |-> <<>>, result |-> "none", did |-> <<>>,
            failed |-> {}, c0 |-> NoInstance, after |-> "none",
            wake |-> NoBurst, prev |-> "none", burstOps |-> NoBurst]

\* How far the finished cycle l got in processTarball.
Reached(l) ==
    IF "cleanup" \in Range(l.did) /\ "cleanup" \notin l.failed THEN "deleted"
    ELSE IF "load" \in Range(l.did) THEN "loaded"
    ELSE "aborted"

\* The cycle a qualifying event starts. History kept with it: the instance
\* at its start (c0), the result of the cycle before (after) and, when its
\* event was already queued as the debounce wait of the cycle before ended
\* for the same path, how far that cycle got (prev) and the number of
\* environment operations done by then (burstOps).
NewCycle(id, path) ==
    [id |-> id, path |-> path, pc |-> "sleep", sleepLeft |-> DebounceSeconds,
     did |-> <<>>, failed |-> {}, c0 |-> container,
     after |-> lastCycle.result, wake |-> NoBurst,
     prev |-> IF lastCycle.wake = NoBurst THEN "none" ELSE Reached(lastCycle),
     burstOps |-> lastCycle.wake]

StepFatalStartSwallowed(step) == step \in {"exists", "preload", "load"}

StepFatalLoadSwallowed(step) == step \in {"exists", "preload", "start"}

StepFatalPreLoadSwallowed(step) == step \in {"exists", "load", "start"}

StepFatalExistsSwallowed(step) == step \in {"preload", "load", "start"}

StepFatalStopFatal(step) ==
    step \in {"exists", "preload", "load", "stop", "remove", "start"}

StepFatalPostLoadFatal(step) ==
    step \in {"exists", "preload", "load", "start", "postload"}

\* processTarball: the steps whose error is returned (the cycle aborts); the
\* errors of the other steps are logged and the cycle goes on.
StepFatal(step) == step \in {"exists", "preload", "load", "start"}

HandleFileEventGo == "select"

\* Run: w.handleFileEvent(event) is a plain call, so the loop is inside the
\* handler until the cycle is over.
HandleFileEventCall == "handling"

AfterCycleFatal(result) == IF result = "err" THEN "failed" ELSE "select"

\* handleFileEvent: the error of processTarball is logged and the handler
\* returns to the select loop of Run.
AfterCycle(result) == "select"

AfterWatchErrorFatal == "failed"

\* Run: an error read from watcher.Errors is logged and the loop selects again.
AfterWatchError == "select"

\* The fsnotify watcher delivers events between Add and Close.
Watching == alive /\ runPc \in {"select", "handling"} /\ ~chanClosed

Emit(name, op) ==
    IF Watching THEN Append(events, [name |-> name, op |-> op]) ELSE events

\* The end of handleFileEvent for cycle c (already updated with its last step).
Finish(c, result) ==
    /\ active' = active \ {d \in active : d.id = c.id}
    /\ lastCycle' = [id |-> c.id, path |-> c.path, result |-> result,
                     did |-> c.did, failed |-> c.failed, c0 |-> c.c0,
                     after |-> c.after, wake |-> c.wake, prev |-> c.prev,
                     burstOps |-> c.burstOps]
    /\ runPc' = IF runPc = "handling" THEN AfterCycle(result) ELSE runPc

\* Cycle c has run `step`: bad tells whether the step's command failed, err
\* whether the step returned an error; the cycle aborts, ends, or goes to next.
Advance(c, step, bad, err, next) ==
    LET c2 == [c EXCEPT !.did = Append(@, step),
                        !.failed = IF bad THEN @ \cup {step} ELSE @]
    IN  IF err /\ StepFatal(step) THEN Finish(c2, "err")
        ELSE IF next = "end" THEN Finish(c2, "ok")
        ELSE /\ active' = {d \in active : d.id # c.id} \cup {[c2 EXCEPT !.pc = next]}
             /\ UNCHANGED <<lastCycle, runPc>>

\* ------------------------------------------------------------ Watcher.Run

\* Run up to the select loop: EnsureDir, fsnotify.NewWatcher, Add. A failure
\* makes Run return an error ("failed"); "returned" is the return of nil.
RunSetup ==
    /\ alive /\ runPc = "start"
    /\ \E ok \in BOOLEAN :
         IF ok THEN runPc' = "select" /\ UNCHANGED errChan
         ELSE runPc' = "failed" /\ errChan' = "err"
    /\ UNCHANGED <<fs, scp, events, errors, chanClosed, ctxDone, active,
                   nextId, ignored, lastCycle, container, cfg, supPc, alive,
                   envOps>>
    /\ UNCHANGED <<uvars, xvars>>

\* select case <-w.ctx.Done(): Run returns nil.
RunCtxDone ==
    /\ alive /\ runPc = "select" /\ ctxDone
    /\ runPc' = "returned"
    /\ errChan' = "nil"
    /\ UNCHANGED <<fs, scp, events, errors, chanClosed, ctxDone, active,
                   nextId, ignored, lastCycle, container, cfg, supPc, alive,
                   envOps>>
    /\ UNCHANGED <<uvars, xvars>>

\* select cases with ok == false: a closed channel makes Run return an error.
RunChannelClosed ==
    /\ alive /\ runPc = "select" /\ chanClosed
    /\ runPc' = "failed"
    /\ errChan' = "err"
    /\ UNCHANGED <<fs, scp, events, errors, chanClosed, ctxDone, active,
                   nextId, ignored, lastCycle, container, cfg, supPc, alive,
                   envOps>>
    /\ UNCHANGED <<uvars, xvars>>

\* select case err := <-w.watcher.Errors: the error is logged.
RunWatchError ==
    /\ alive /\ runPc = "select" /\ ~chanClosed /\ errors > 0
    /\ errors' = errors - 1
    /\ runPc' = AfterWatchError
    /\ UNCHANGED <<fs, scp, events, chanClosed, ctxDone, active, nextId,
                   ignored, lastCycle, container, cfg, errChan, supPc, alive,
                   envOps>>
    /\ UNCHANGED <<uvars, xvars>>

\* select case event := <-w.watcher.Events, and handleFileEvent up to its
\* time.Sleep: the suffix filter and the operation filter.
RunEvent ==
    /\ alive /\ runPc = "select" /\ ~chanClosed /\ events # <<>>
    /\ events' = Tail(events)
    /\ LET ev == Head(events)
       IN  IF IsTarball(ev.name) /\ IsCreateOrWrite(ev.op)
           THEN /\ active' = active \cup {NewCycle(nextId, ev.name)}
                /\ nextId' = nextId + 1
                /\ runPc' = HandleFileEventCall
                /\ lastCycle' = NoCycle
                /\ UNCHANGED ignored
           ELSE /\ ignored' = ignored + 1
                /\ UNCHANGED <<active, nextId, runPc, lastCycle>>
    /\ UNCHANGED <<fs, scp, errors, chanClosed, ctxDone, container, cfg,
                   errChan, supPc, alive, envOps>>
    /\ UNCHANGED <<uvars, xvars>>

\* ------------------------------------------------- handleFileEvent, per step

\* The next event the loop will read is a create or write of the same path.
QueuedNext(path) ==
    /\ events # <<>>
    /\ IsTarball(Head(events).name) /\ IsCreateOrWrite(Head(events).op)
    /\ Head(events).name = path

\* time.Sleep(2 * time.Second), one second at a time. When the wait ends the
\* cycle notes whether an event of the same burst is queued behind it.
Sleep(c) ==
    /\ alive /\ c.pc = "sleep"
    /\ IF c.sleepLeft > 1
       THEN /\ active' = (active \ {c}) \cup {[c EXCEPT !.sleepLeft = @ - 1]}
            /\ UNCHANGED <<lastCycle, runPc>>
       ELSE Advance([c EXCEPT !.sleepLeft = 0,
                              !.wake = IF QueuedNext(c.path) THEN envOps
                                       ELSE NoBurst],
                    "sleep", FALSE, FALSE, "exists")
    /\ UNCHANGED <<fs, scp, events, errors, chanClosed, ctxDone, nextId,
                   ignored, container, cfg, errChan, supPc, alive, envOps>>
    /\ UNCHANGED <<uvars, xvars>>

\* processTarball: utils.FileExists(tarballPath).
Exists(c) ==
    /\ alive /\ c.pc = "exists"
    /\ Advance(c, "exists", fs[c.path] = "absent", fs[c.path] = "absent",
               "preload")
    /\ UNCHANGED <<fs, scp, events, errors, chanClosed, ctxDone, nextId,
                   ignored, container, cfg, errChan, supPc, alive, envOps>>
    /\ UNCHANGED <<uvars, xvars>>

\* executePreLoadCommands.
PreLoad(c) ==
    /\ alive /\ c.pc = "preload"
    /\ \E ok \in [1..Len(cfg.preLoad) -> BOOLEAN] :
         LET r == ExecuteHooks(cfg.preLoad, ok)
         IN  Advance(c, "preload", SomeFailed(r.ran, ok), r.err, "load")
    /\ UNCHANGED <<fs, scp, events, errors, chanClosed, ctxDone, nextId,
                   ignored, container, cfg, errChan, supPc, alive, envOps>>
    /\ UNCHANGED <<uvars, xvars>>

\* loadDockerImage: "docker load -i <tarball>"; it cannot succeed on a file
\* that is gone.
Load(c) ==
    /\ alive /\ c.pc = "load"
    /\ \E ok \in BOOLEAN :
         LET err == ~ok \/ fs[c.path] = "absent"
         IN  Advance(c, "load", err, err, "stop")
    /\ UNCHANGED <<fs, scp, events, errors, chanClosed, ctxDone, nextId,
                   ignored, container, cfg, errChan, supPc, alive, envOps>>
    /\ UNCHANGED <<uvars, xvars>>

\* stopAndRemoveContainer: "docker stop <name>", error logged at debug level.
StopContainer(c) ==
    /\ alive /\ c.pc = "stop"
    /\ \E ok \in BOOLEAN :
         LET r == DockerStop(container, ok)
         IN  /\ container' = r.c
             /\ Advance(c, "stop", r.err, r.err, "remove")
    /\ UNCHANGED <<fs, scp, events, errors, chanClosed, ctxDone, nextId,
                   ignored, cfg, errChan, supPc, alive, envOps>>
    /\ UNCHANGED <<uvars, xvars>>

\* stopAndRemoveContainer: "docker rm <name>", error logged at debug level.
RemoveContainer(c) ==
    /\ alive /\ c.pc = "remove"
    /\ \E ok \in BOOLEAN :
         LET r == DockerRm(container, ok)
         IN  /\ container' = r.c
             /\ Advance(c, "remove", r.err, r.err, "start")
    /\ UNCHANGED <<fs, scp, events, errors, chanClosed, ctxDone, nextId,
                   ignored, cfg, errChan, supPc, alive, envOps>>
    /\ UNCHANGED <<uvars, xvars>>

\* startContainer: "docker run -d --name <name> ...".
StartContainer(c) ==
    /\ alive /\ c.pc = "start"
    /\ \E out \in RunOutcomes :
         LET r == DockerRun(container, c.id, out)
         IN  /\ container' = r.c
             /\ Advance(c, "start", r.err, r.err, "postload")
    /\ UNCHANGED <<fs, scp, events, errors, chanClosed, ctxDone, nextId,
                   ignored, cfg, errChan, supPc, alive, envOps>>
    /\ UNCHANGED <<uvars, xvars>>

\* executePostLoadCommands, error logged as a warning.
PostLoad(c) ==
    /\ alive /\ c.pc = "postload"
    /\ \E ok \in [1..Len(cfg.postLoad) -> BOOLEAN] :
         LET r == ExecuteHooks(cfg.postLoad, ok)
         IN  Advance(c, "postload", SomeFailed(r.ran, ok), r.err, "cleanup")
    /\ UNCHANGED <<fs, scp, events, errors, chanClosed, ctxDone, nextId,
                   ignored, container, cfg, errChan, supPc, alive, envOps>>
    /\ UNCHANGED <<uvars, xvars>>

\* cleanupTarball: os.Remove(tarballPath), error logged as a warning; the
\* removal is itself reported by fsnotify as a Remove event.
Cleanup(c) ==
    /\ alive /\ c.pc = "cleanup"
    /\ \E ok \in BOOLEAN :
         LET err == ~ok \/ fs[c.path] = "absent"
         IN  /\ fs' = IF err THEN fs ELSE [fs EXCEPT ![c.path] = "absent"]
             /\ events' = IF err THEN events ELSE Emit(c.path, {"Remove"})
             /\ Advance(c, "cleanup", err, err, "end")
    /\ UNCHANGED <<scp, errors, chanClosed, ctxDone, nextId, ignored,
                   container, cfg, errChan, supPc, alive, envOps>>
    /\ UNCHANGED <<uvars, xvars>>

\* ------------------------------------------- runWatcherWithSignalHandling

\* Watcher.Stop: w.cancel().
StopWatcher == ctxDone' = TRUE

\* SIGINT or SIGTERM arrives; select case sig := <-sigChan: w.Stop(), return nil.
SupSignal ==
    /\ alive /\ supPc = "wait"
    /\ StopWatcher
    /\ supPc' = "returned"
    /\ UNCHANGED <<fs, scp, events, errors, chanClosed, runPc, active, nextId,
                   ignored, lastCycle, container, cfg, errChan, alive, envOps>>
    /\ UNCHANGED <<uvars, xvars>>

\* select case err := <-errChan: return err.
SupErr ==
    /\ alive /\ supPc = "wait" /\ errChan # "empty"
    /\ supPc' = IF errChan = "nil" THEN "returned" ELSE "failed"
    /\ errChan' = "empty"
    /\ UNCHANGED <<fs, scp, events, errors, chanClosed, ctxDone, runPc, active,
                   nextId, ignored, lastCycle, container, cfg, alive, envOps>>
    /\ UNCHANGED <<uvars, xvars>>

\* runWatcher returns (or logger.Fatal exits) once the supervisor has
\* returned: the process ends, whatever the Run goroutine is doing.
ProcessExit ==
    /\ alive /\ supPc # "wait"
    /\ alive' = FALSE
    /\ UNCHANGED <<fs, scp, events, errors, chanClosed, ctxDone, runPc, active,
                   nextId, ignored, lastCycle, container, cfg, errChan, supPc,
                   envOps>>
    /\ UNCHANGED <<uvars, xvars>>

\* ------------------------------------------------------------- environment

\* fsnotify reports an error on its Errors channel.
WatchError ==
    /\ Watching /\ envOps < MaxEnvOps
    /\ errors' = errors + 1
    /\ envOps' = envOps + 1
    /\ UNCHANGED <<fs, scp, events, chanClosed, ctxDone, runPc, active, nextId,
                   ignored, lastCycle, container, cfg, errChan, supPc, alive>>
    /\ UNCHANGED <<uvars, xvars>>

\* fsnotify closes its Events and Errors channels.
CloseChannels ==
    /\ Watching /\ envOps < MaxEnvOps
    /\ chanClosed' = TRUE
    /\ envOps' = envOps + 1
    /\ UNCHANGED <<fs, scp, events, errors, ctxDone, runPc, active, nextId,
                   ignored, lastCycle, container, cfg, errChan, supPc, alive>>
    /\ UNCHANGED <<uvars, xvars>>

\* Some other program touches a file of the watched directory.
FsOp(p, op) ==
    /\ alive /\ envOps < MaxEnvOps
    /\ IF "Create" \in op THEN fs[p] = "absent" ELSE fs[p] # "absent"
    /\ fs' = [fs EXCEPT ![p] = IF "Create" \in op THEN "complete"
                                ELSE IF op \cap {"Remove", "Rename"} # {} THEN "absent"
                                ELSE @]
    /\ events' = Emit(p, op)
    /\ envOps' = envOps + 1
    /\ UNCHANGED <<scp, errors, chanClosed, ctxDone, runPc, active, nextId,
                   ignored, lastCycle, container, cfg, errChan, supPc, alive>>
    /\ UNCHANGED <<uvars, xvars>>

\* ------------------------------------------- Uploader.scpUpload, remote end

ScpIdle == [pc |-> "idle", path |-> <<>>]

\* The header line "C<mode> <size> <name>\n": the remote "scp -t" creates (or
\* truncates) the destination file.
ScpHeader(p) ==
    /\ alive /\ scp.pc = "idle" /\ envOps < MaxEnvOps
    /\ scp' = [pc |-> "copy", path |-> p]
    /\ fs' = [fs EXCEPT ![p] = "partial"]
    /\ events' = Emit(p, IF fs[p] = "absent" THEN {"Create"} ELSE {"Write"})
    /\ envOps' = envOps + 1
    /\ UNCHANGED <<errors, chanClosed, ctxDone, runPc, active, nextId, ignored,
                   lastCycle, container, cfg, errChan, supPc, alive>>
    /\ UNCHANGED <<uvars, xvars>>

\* io.Copy(stdin, localFile): the remote peer writes the next chunk.
ScpCopy ==
    /\ alive /\ scp.pc = "copy" /\ envOps < MaxEnvOps
    /\ events' = IF fs[scp.path] = "absent" THEN events
                 ELSE Emit(scp.path, {"Write"})
    /\ envOps' = envOps + 1
    /\ UNCHANGED <<fs, scp, errors, chanClosed, ctxDone, runPc, active, nextId,
                   ignored, lastCycle, container, cfg, errChan, supPc, alive>>
    /\ UNCHANGED <<uvars, xvars>>

\* The end marker, stdin.Close and session.Wait: the remote file is complete.
ScpEnd ==
    /\ alive /\ scp.pc = "copy"
    /\ scp' = ScpIdle
    /\ fs' = [fs EXCEPT ![scp.path] = IF @ = "partial" THEN "complete" ELSE @]
    /\ UNCHANGED <<events, errors, chanClosed, ctxDone, runPc, active, nextId,
                   ignored, lastCycle, container, cfg, errChan, supPc, alive,
                   envOps>>
    /\ UNCHANGED <<uvars, xvars>>

\* ----------------------------------------------------------- Uploader.Run

UpNextStepNoCleanup(step) ==
    CASE step = "prebuild" -> "build"
      [] step = "build" -> "export"
      [] step = "export" -> "transfer"
      [] step = "transfer" -> "postbuild"
      [] step = "postbuild" -> "returned"
      [] step = "cleanup" -> "returned"

\* The order of the steps of Run; "returned" is the return of nil.
UpNextStep(step) ==
    CASE step = "prebuild" -> "build"
      [] step = "build" -> "export"
      [] step = "export" -> "transfer"
      [] step = "transfer" -> "postbuild"
      [] step = "postbuild" -> "cleanup"
      [] step = "cleanup" -> "returned"

UpStepFatalBuildSwallowed(step) ==
    step \in {"prebuild", "export", "transfer", "postbuild"}

UpStepFatalCleanupFatal(step) ==
    step \in {"prebuild", "build", "export", "transfer", "postbuild", "cleanup"}

UpStepFatalTransferSwallowed(step) ==
    step \in {"prebuild", "build", "export", "postbuild"}

\* Run: the steps whose error is returned; the error of cleanupTarball is
\* logged and Run returns nil.
UpStepFatal(step) ==
    step \in {"prebuild", "build", "export", "transfer", "postbuild"}

\* Run: the text each step's error is wrapped in before it is returned.
UpErrorText(step) ==
    CASE step = "prebuild" -> "pre-build commands failed"
      [] step = "build" -> "docker build failed"
      [] step = "export" -> "tarball creation failed"
      [] step = "transfer" -> "upload failed"
      [] step = "postbuild" -> "post-build commands failed"

TarballMissingUnchecked(local) == FALSE

\* createTarball: !utils.FileExists(tarballPath) after docker save.
TarballMissing(local) == local # "written"

\* The uploader before Run, and in a process that runs the watcher.
UpStart == [pc |-> "prebuild", did |-> <<>>, failed |-> {}, err |-> "none",
            path |-> <<>>, local |-> "absent", save |-> "none",
            conn |-> "none"]
UpOff == [UpStart EXCEPT !.pc = "off"]
NoUploader == [preBuild |-> <<>>, postBuild |-> <<>>, tarballDir |-> FALSE,
               keyPath |-> FALSE]

\* Run after `step` ended in u: err tells whether the step returned an error.
\* did lists the steps in the order they began, failed those that returned
\* an error, err the step whose error Run returned.
UpAdvance(u, step, err) ==
    LET u2 == [u EXCEPT !.did = IF step \in Range(@) THEN @ ELSE Append(@, step),
                        !.failed = IF err THEN @ \cup {step} ELSE @]
    IN  up' = IF err /\ UpStepFatal(step)
              THEN [u2 EXCEPT !.pc = "failed", !.err = step]
              ELSE [u2 EXCEPT !.pc = UpNextStep(step)]

\* executePreBuildCommands.
UpPreBuild ==
    /\ up.pc = "prebuild"
    /\ \E ok \in [1..Len(ucfg.preBuild) -> BOOLEAN] :
         UpAdvance(up, "prebuild", ExecuteHooks(ucfg.preBuild, ok).err)
    /\ UNCHANGED <<wvars, ucfg, xvars>>

\* buildDockerImage: one command, the configured one or docker build.
UpBuild ==
    /\ up.pc = "build"
    /\ \E ok \in BOOLEAN : UpAdvance(up, "build", ~ok)
    /\ UNCHANGED <<wvars, ucfg, xvars>>

\* createTarball: EnsureDir when TarballPath is set, docker save into a file
\* named after the time, then the check that the file exists.  docker save
\* may or may not leave a file, whatever its exit status.
UpExport ==
    /\ up.pc = "export"
    /\ \E p \in UploadPaths, dirOk \in BOOLEAN, exit0 \in BOOLEAN, made \in BOOLEAN :
         IF ucfg.tarballDir /\ ~dirOk THEN UpAdvance(up, "export", TRUE)
         ELSE LET u == [up EXCEPT !.path = p,
                                  !.save = IF exit0 THEN "ok" ELSE "failed",
                                  !.local = IF made THEN "written" ELSE @]
              IN  UpAdvance(u, "export", ~exit0 \/ TarballMissing(u.local))
    /\ UNCHANGED <<wvars, ucfg, xvars>>

\* createSSHClient: the key is read and parsed only when RemoteKeyPath is set
\* (keySet), and a failure of either (~keyOk) is returned before anything
\* else; the host key is checked against known_hosts when the file exists
\* and loads, and not at all otherwise; then ssh.Dial is called with the
\* authentication methods collected and that host-key callback.
CreateSSHClient(keySet, keyOk, known, dialOk) ==
    IF keySet /\ ~keyOk
    THEN [err |-> TRUE, dialed |-> FALSE, auth |-> {}, hostKey |-> "none"]
    ELSE [err |-> ~dialOk, dialed |-> TRUE,
          auth |-> IF keySet THEN {"publickey"} ELSE {},
          hostKey |-> IF known = "ok" THEN "known_hosts" ELSE "insecure"]

\* The deferred client.Close() of uploadTarball.
UpClosed(u) == [u EXCEPT !.conn = "closed"]

\* uploadTarball up to scpUpload: createSSHClient reads and parses the key
\* when RemoteKeyPath is set, then dials.
UpDial ==
    /\ up.pc = "transfer"
    /\ \E keyOk \in BOOLEAN, known \in KnownHosts, dialOk \in BOOLEAN :
         IF CreateSSHClient(ucfg.keyPath, keyOk, known, dialOk).err
         THEN UpAdvance(up, "transfer", TRUE)
         ELSE up' = [up EXCEPT !.did = Append(@, "transfer"),
                               !.conn = "open", !.pc = "scpStart"]
    /\ UNCHANGED <<wvars, ucfg, xvars>>

\* scpUpload up to session.Start: os.Open, Stat, NewSession, StdinPipe and
\* the start of "scp -t" on the remote host.
UpScpStart ==
    /\ up.pc = "scpStart"
    /\ \E ok \in BOOLEAN :
         IF ~ok \/ up.local # "written"
         THEN UpAdvance(UpClosed(up), "transfer", TRUE)
         ELSE up' = [up EXCEPT !.pc = "scpHeader"]
    /\ UNCHANGED <<wvars, ucfg, xvars>>

\* scpUpload: the header line; the remote peer creates the destination file.
UpScpHeader ==
    /\ up.pc = "scpHeader"
    /\ \E ok \in BOOLEAN :
         IF ok
         THEN /\ up' = [up EXCEPT !.pc = "scpCopy"]
              /\ scp' = [pc |-> "copy", path |-> up.path]
              /\ fs' = [fs EXCEPT ![up.path] = "partial"]
              /\ events' = Emit(up.path, IF fs[up.path] = "absent"
                                         THEN {"Create"} ELSE {"Write"})
         ELSE /\ UpAdvance(UpClosed(up), "transfer", TRUE)
              /\ UNCHANGED <<fs, scp, events>>
    /\ UNCHANGED <<errors, chanClosed, ctxDone, runPc, active, nextId, ignored,
                   lastCycle, container, cfg, errChan, supPc, alive, envOps,
                   ucfg, xvars>>

\* scpUpload: io.Copy(stdin, localFile); on an error the connection is
\* closed and the remote peer leaves what it has written.
UpScpCopy ==
    /\ up.pc = "scpCopy"
    /\ \E ok \in BOOLEAN :
         IF ok
         THEN /\ up' = [up EXCEPT !.pc = "scpEnd"]
              /\ UNCHANGED scp
         ELSE /\ UpAdvance(UpClosed(up), "transfer", TRUE)
              /\ scp' = ScpIdle
    /\ events' = Emit(up.path, {"Write"})
    /\ UNCHANGED <<fs, errors, chanClosed, ctxDone, runPc, active, nextId,
                   ignored, lastCycle, container, cfg, errChan, supPc, alive,
                   envOps, ucfg, xvars>>

\* scpUpload: the end marker, stdin.Close and session.Wait.  When one of
\* them reports an error the remote file may be complete or not.
UpScpEnd ==
    /\ up.pc = "scpEnd"
    /\ \E ok \in BOOLEAN, done \in BOOLEAN :
         /\ UpAdvance(UpClosed(up), "transfer", ~ok)
         /\ fs' = [fs EXCEPT ![up.path] = IF ok \/ done THEN "complete" ELSE @]
    /\ scp' = ScpIdle
    /\ UNCHANGED <<events, errors, chanClosed, ctxDone, runPc, active, nextId,
                   ignored, lastCycle, container, cfg, errChan, supPc, alive,
                   envOps, ucfg, xvars>>

\* executePostBuildCommands.
UpPostBuild ==
    /\ up.pc = "postbuild"
    /\ \E ok \in [1..Len(ucfg.postBuild) -> BOOLEAN] :
         UpAdvance(up, "postbuild", ExecuteHooks(ucfg.postBuild, ok).err)
    /\ UNCHANGED <<wvars, ucfg, xvars>>

\* cleanupTarball: os.Remove(tarballPath).
UpCleanup ==
    /\ up.pc = "cleanup"
    /\ \E ok \in BOOLEAN :
         LET err == ~ok \/ up.local # "written"
         IN  UpAdvance([up EXCEPT !.local = IF err THEN @ ELSE "removed"],
                       "cleanup", err)
    /\ UNCHANGED <<wvars, ucfg, xvars>>

\* ------------------------------------------------------------------ utils

NoCall == [fn |-> "none"]
NoRet == [pc |-> "none"]

\* No file at the destination of a push.
NoFile == [exists |-> FALSE]

\* The calls of utility functions that are examined on their own.
UtilCalls ==
    {[fn |-> "ExecuteCommands", commands |-> cs] : cs \in CommandLists}
        \cup {[fn |-> "ExecuteCommand", kids |-> ks] : ks \in KidSets}
        \cup {[fn |-> f, cmdOk |-> k, others |-> o] :
                    f \in {"GetContainerStatus", "GetContainerLogs"},
                    k \in BOOLEAN, o \in SUBSET OtherNames}
        \cup {[fn |-> "createSSHClient", keySet |-> s, keyOk |-> k,
                known |-> h, dialOk |-> d] :
                    s \in BOOLEAN, k \in BOOLEAN, h \in KnownHosts,
                    d \in BOOLEAN}
        \cup {[fn |-> "scpUpload", local |-> l, content |-> c, perm |-> p,
                umask |-> u, existing |-> e] :
                    l \in LocalPaths, c \in Contents, p \in Perms,
                    u \in Umasks,
                    e \in {NoFile, [exists |-> TRUE, perm |-> <<6, 0, 0>>]}}
        \cup {[fn |-> "startContainer", config |-> rc, tarballs |-> <<t1, t2>>] :
                    rc \in RunConfigs, t1 \in Tarballs, t2 \in Tarballs}
        \cup {[fn |-> "scpSession", local |-> l, content |-> c,
                perm |-> <<6, 4, 4>>] :
                    l \in LocalPaths, c \in Contents}

\* utils.ExecuteCommands(commands, timeout, logger), with the outcome ok[i]
\* of each command: the error returned and the commands executed, in order.
CallExecuteCommands ==
    /\ call.fn = "ExecuteCommands" /\ ret = NoRet
    /\ \E ok \in [1..Len(call.commands) -> BOOLEAN] :
         LET r == ExecuteCommands(call.commands, ok)
         IN  ret' = [pc |-> "returned", ok |-> ok, err |-> r.err, ran |-> r.ran]
    /\ UNCHANGED <<call, wvars, uvars>>

\* exec.CommandContext: when the context is done the command's process, the
\* shell, is killed; the processes the shell started are not signalled.
ExecKill(r) == [r EXCEPT !.sh = IF @ = "running" THEN "killed" ELSE @]

\* ExecuteCommand: exec.CommandContext(ctx, "sh", "-c", command) is started
\* by CombinedOutput; the shell starts the processes of the command.
ExecSpawn ==
    /\ call.fn = "ExecuteCommand" /\ ret = NoRet
    /\ ret' = [pc |-> "wait", sh |-> "running", kids |-> DOMAIN call.kids,
               expired |-> FALSE, exit |-> 0, result |-> "none"]
    /\ UNCHANGED <<call, wvars, uvars>>

\* A process the shell started ends by itself.
ExecKidExit(k) ==
    /\ call.fn = "ExecuteCommand" /\ ret # NoRet
    /\ k \in ret.kids
    /\ ret' = [ret EXCEPT !.kids = @ \ {k}]
    /\ UNCHANGED <<call, wvars, uvars>>

\* The shell ends by itself, with exit status 0 or not.
ExecShExit ==
    /\ call.fn = "ExecuteCommand" /\ ret # NoRet
    /\ ret.sh = "running"
    /\ \E status \in {0, 1} : ret' = [ret EXCEPT !.sh = "exited", !.exit = status]
    /\ UNCHANGED <<call, wvars, uvars>>

\* The deadline of context.WithTimeout passes while CombinedOutput waits.
ExecDeadline ==
    /\ call.fn = "ExecuteCommand" /\ ret # NoRet
    /\ ret.pc = "wait" /\ ~ret.expired
    /\ ret' = [ExecKill(ret) EXCEPT !.expired = TRUE]
    /\ UNCHANGED <<call, wvars, uvars>>

\* CombinedOutput returns once the shell is gone and every holder of the
\* output pipe has closed it; ExecuteCommand then tests ctx.Err() first.
ExecReturn ==
    /\ call.fn = "ExecuteCommand" /\ ret # NoRet
    /\ ret.pc = "wait" /\ ret.sh # "running"
    /\ \A k \in ret.kids : ~call.kids[k].pipe
    /\ ret' = [ret EXCEPT !.pc = "returned",
                          !.result = IF ret.expired THEN "TimedOut"
                                     ELSE IF ret.sh = "exited" /\ ret.exit = 0
                                          THEN "Success"
                                     ELSE "Failed"]
    /\ UNCHANGED <<call, wvars, uvars>>

\* ---------------------------------------------------------- scpUpload data

\* filepath.Base and filepath.Join on paths given by their components.
Base(path) == path[Len(path)]
Join(dir, name) == Append(dir, name)

\* The octal digits of n, most significant first, without leading zeros.
RECURSIVE OctDigits(_)
OctDigits(n) == IF n < 8 THEN <<n>> ELSE Append(OctDigits(n \div 8), n % 8)

\* fmt's %#o: a leading 0, then the octal digits; 0 prints as "0".
FormatSharpO(n) == IF n = 0 THEN <<0>> ELSE <<0>> \o OctDigits(n)

\* Mode().Perm() as a number.
PermValue(perm) == 64 * perm[1] + 8 * perm[2] + perm[3]

\* The header line "C%#o %d %s\n" scpUpload writes, field by field.
ScpHeaderLine(perm, size, name) ==
    [mode |-> FormatSharpO(PermValue(perm)), size |-> size, name |-> name]

\* The bits of octal digit d that are not in octal digit m.
Unmasked(d, m) ==
    LET bit(x, w) == (x \div w) % 2
    IN  4 * (bit(d, 4) * (1 - bit(m, 4))) + 2 * (bit(d, 2) * (1 - bit(m, 2)))
          + (bit(d, 1) * (1 - bit(m, 1)))

\* The remote "scp -t" (without -p) on a header and the bytes that follow:
\* the mode must be exactly four octal digits; it reads `size` bytes and
\* then the end marker; a new file gets the mode less the umask, an
\* existing file keeps its mode.
ScpSink(target, header, stream, umask, existing) ==
    IF Len(header.mode) # 4 THEN [err |-> TRUE, file |-> existing]
    ELSE LET mode == <<header.mode[2], header.mode[3], header.mode[4]>>
             perm == IF existing.exists THEN existing.perm
                     ELSE [i \in 1..3 |-> Unmasked(mode[i], umask[i])]
             got == SubSeq(stream, 1, header.size)
             file == [exists |-> TRUE, path |-> target, content |-> got,
                      perm |-> perm]
         IN  IF Len(stream) = header.size + 1 /\ stream[header.size + 1] = 0
             THEN [err |-> FALSE, file |-> file]
             ELSE [err |-> TRUE, file |-> file]

\* "docker ps -a --filter name=<name> --format '{{.Status}}'": one status
\* line for every container, running or not, whose name contains <name>.
DockerPsStatus(name, others) ==
    (IF container.state = "absent" THEN <<>>
     ELSE IF container.state = "running" THEN <<"Up">> ELSE <<"Exited">>)
        \o [i \in 1..Cardinality({o \in others : Contains(o, name)}) |-> "Up"]

\* GetContainerStatus(): the trimmed output of the query, or its error.
CallGetContainerStatus ==
    /\ call.fn = "GetContainerStatus" /\ ret = NoRet
    /\ ret' = IF call.cmdOk
              THEN [pc |-> "returned", err |-> FALSE,
                    out |-> DockerPsStatus(ContainerName, call.others)]
              ELSE [pc |-> "returned", err |-> TRUE, out |-> <<>>]
    /\ UNCHANGED <<call, wvars, uvars>>

\* GetContainerLogs(lines): "docker logs --tail <lines> <name>" fails when
\* there is no such container.
CallGetContainerLogs ==
    /\ call.fn = "GetContainerLogs" /\ ret = NoRet
    /\ ret' = IF call.cmdOk /\ container.state # "absent"
              THEN [pc |-> "returned", err |-> FALSE, out |-> <<"log">>]
              ELSE [pc |-> "returned", err |-> TRUE, out |-> <<>>]
    /\ UNCHANGED <<call, wvars, uvars>>

\* createSSHClient() for a configuration and an environment.
CallCreateSSHClient ==
    /\ call.fn = "createSSHClient" /\ ret = NoRet
    /\ LET r == CreateSSHClient(call.keySet, call.keyOk, call.known, call.dialOk)
       IN  ret' = [pc |-> "returned", err |-> r.err, dialed |-> r.dialed,
                   auth |-> r.auth, hostKey |-> r.hostKey]
    /\ UNCHANGED <<call, wvars, uvars>>

\* scpUpload(client, localPath) when the session and its pipe work: Stat,
\* the header, io.Copy of the file, the end marker, and session.Wait, which
\* reports an error when the remote scp exited with a non-zero status.
CallScpUpload ==
    /\ call.fn = "scpUpload" /\ ret = NoRet
    /\ LET name == Base(call.local)
           header == ScpHeaderLine(call.perm, Len(call.content), name)
           stream == call.content \o <<0>>
           r == ScpSink(Join(RemoteDir, name), header, stream, call.umask,
                        call.existing)
       IN  ret' = [pc |-> "returned", err |-> r.err, remote |-> r.file,
                   announced |-> header.size, streamed |-> Len(stream) - 1]
    /\ UNCHANGED <<call, wvars, uvars>>

\* ------------------------------------------------------- startContainer

\* One argument of the command line: the option written before it and its
\* text.
Arg(flag, text) == [flag |-> flag, text |-> text]

\* extractImageNameFromTarball(): the image name is the container name.
ExtractImageNameFromTarball(config) == config.name

\* buildDockerRunCommand(): "docker run -d", the name, the restart policy
\* when one is set, then the ports, the environment and the volumes in the
\* order of the configuration, and last the image name.
BuildDockerRunCommand(config) ==
    <<Arg("docker run -d", <<>>), Arg("--name", config.name)>>
        \o (IF config.restart # <<>> THEN <<Arg("--restart", config.restart)>>
            ELSE <<>>)
        \o [i \in 1..Len(config.ports) |-> Arg("-p", config.ports[i])]
        \o [i \in 1..Len(config.env) |-> Arg("-e", config.env[i])]
        \o [i \in 1..Len(config.volumes) |-> Arg("-v", config.volumes[i])]
        \o <<Arg("", ExtractImageNameFromTarball(config))>>

StartCommandImageOfTarball(config, tarball) ==
    LET cmd == BuildDockerRunCommand(config)
    IN  [cmd EXCEPT ![Len(cmd)] = Arg("", tarball.path)]

\* The command startContainer runs in the cycle processTarball makes for
\* `tarball`: the path of the archive is not handed to startContainer.
StartCommand(config, tarball) == BuildDockerRunCommand(config)

\* startContainer() in two cycles of one watcher, each for its own archive.
CallStartContainer ==
    /\ call.fn = "startContainer" /\ ret = NoRet
    /\ ret' = [pc |-> "returned",
               cmds |-> [i \in 1..2 |-> StartCommand(call.config, call.tarballs[i])]]
    /\ UNCHANGED <<call, wvars, uvars>>

\* ------------------------------------------- scpUpload, the command channel

ScpWireNextNoEndMarker(pc) ==
    CASE pc = "header" -> "copy"
      [] pc = "copy" -> "close"
      [] pc = "eot" -> "close"
      [] pc = "close" -> "wait"
      [] pc = "wait" -> "returned"

\* scpUpload after session.Start: the statements that use the stdin pipe
\* and the session, in program order.
ScpWireNext(pc) ==
    CASE pc = "header" -> "copy"
      [] pc = "copy" -> "eot"
      [] pc = "eot" -> "close"
      [] pc = "close" -> "wait"
      [] pc = "wait" -> "returned"

\* What scpUpload does on the command channel, as the remote peer sees it:
\* the header line, one file byte, the end marker "\x00", the close of
\* stdin, and the wait for the exit status.
WireHeader(line) == [kind |-> "header", line |-> line]
WireByte(b) == [kind |-> "byte", b |-> b]
WireEnd == [kind |-> "end", b |-> 0]
WireClose == [kind |-> "close"]
WireWait == [kind |-> "wait"]

\* scpUpload returns the error of the statement at r.pc; the deferred
\* session.Close() runs, nothing more is written.
ScpFail(r) == [r EXCEPT !.err = r.pc, !.pc = "returned"]

\* stdin.Write([]byte(header)).
ScpSendHeader ==
    /\ call.fn = "scpSession" /\ ret = NoRet
    /\ LET r == [pc |-> "header", wire |-> <<>>, read |-> 0, err |-> "none"]
           line == ScpHeaderLine(call.perm, Len(call.content), Base(call.local))
       IN  \E ok \in BOOLEAN :
             ret' = IF ok THEN [r EXCEPT !.wire = <<WireHeader(line)>>,
                                         !.pc = ScpWireNext("header")]
                    ELSE ScpFail(r)
    /\ UNCHANGED <<call, wvars, uvars>>

\* io.Copy(stdin, localFile): the next byte read from the file is written,
\* until the end of the file.
ScpCopyByte ==
    /\ call.fn = "scpSession" /\ ret # NoRet
    /\ ret.pc = "copy"
    /\ IF ret.read = Len(call.content)
       THEN ret' = [ret EXCEPT !.pc = ScpWireNext("copy")]
       ELSE \E ok \in BOOLEAN :
              ret' = IF ok
                     THEN [ret EXCEPT !.read = @ + 1,
                               !.wire = Append(@, WireByte(call.content[ret.read + 1]))]
                     ELSE ScpFail(ret)
    /\ UNCHANGED <<call, wvars, uvars>>

\* stdin.Write([]byte("\x00")).
ScpSendEndMarker ==
    /\ call.fn = "scpSession" /\ ret # NoRet
    /\ ret.pc = "eot"
    /\ \E ok \in BOOLEAN :
         ret' = IF ok THEN [ret EXCEPT !.wire = Append(@, WireEnd),
                                       !.pc = ScpWireNext("eot")]
                ELSE ScpFail(ret)
    /\ UNCHANGED <<call, wvars, uvars>>

\* stdin.Close(); its error is not looked at.
ScpCloseStdin ==
    /\ call.fn = "scpSession" /\ ret # NoRet
    /\ ret.pc = "close"
    /\ ret' = [ret EXCEPT !.wire = Append(@, WireClose),
                          !.pc = ScpWireNext("close")]
    /\ UNCHANGED <<call, wvars, uvars>>

\* session.Wait(): an error when the remote peer did not exit with status 0.
ScpWait ==
    /\ call.fn = "scpSession" /\ ret # NoRet
    /\ ret.pc = "wait"
    /\ \E ok \in BOOLEAN :
         LET r == [ret EXCEPT !.wire = Append(@, WireWait)]
         IN  ret' = IF ok THEN [r EXCEPT !.pc = ScpWireNext("wait")]
                    ELSE ScpFail(r)
    /\ UNCHANGED <<call, wvars, uvars>>

\* ------------------------------------------------------------ specification

Init ==
    /\ fs = [p \in Paths |-> "absent"]
    /\ scp = ScpIdle
    /\ events = <<>>
    /\ errors = 0
    /\ chanClosed = FALSE
    /\ ctxDone = FALSE
    /\ runPc = "start"
    /\ active = {}
    /\ nextId = 1
    /\ ignored = 0
    /\ lastCycle = NoCycle
    /\ container \in {NoInstance, PriorInstance}
    /\ cfg \in Configs
    /\ errChan = "empty"
    /\ supPc = "wait"
    /\ alive = TRUE
    /\ envOps = 0
    /\ up = UpOff
    /\ ucfg = NoUploader
    /\ call = NoCall
    /\ ret = NoRet

Next ==
    \/ RunSetup
    \/ RunCtxDone
    \/ RunChannelClosed
    \/ RunWatchError
    \/ RunEvent
    \/ \E c \in active : Sleep(c)
    \/ \E c \in active : Exists(c)
    \/ \E c \in active : PreLoad(c)
    \/ \E c \in active : Load(c)
    \/ \E c \in active : StopContainer(c)
    \/ \E c \in active : RemoveContainer(c)
    \/ \E c \in active : StartContainer(c)
    \/ \E c \in active : PostLoad(c)
    \/ \E c \in active : Cleanup(c)
    \/ SupSignal
    \/ SupErr
    \/ ProcessExit
    \/ WatchError
    \/ CloseChannels
    \/ \E p \in Paths, op \in EventOps : FsOp(p, op)
    \/ \E p \in UploadPaths : ScpHeader(p)
    \/ ScpCopy
    \/ ScpEnd

Spec == Init /\ [][Next]_vars

\* The uploader's run: the remote directory is empty and not watched yet.
UpInit ==
    /\ fs = [p \in Paths |-> "absent"]
    /\ scp = ScpIdle
    /\ events = <<>>
    /\ errors = 0
    /\ chanClosed = FALSE
    /\ ctxDone = FALSE
    /\ runPc = "start"
    /\ active = {}
    /\ nextId = 1
    /\ ignored = 0
    /\ lastCycle = NoCycle
    /\ container = NoInstance
    /\ cfg \in Configs
    /\ errChan = "empty"
    /\ supPc = "wait"
    /\ alive = TRUE
    /\ envOps = 0
    /\ up = UpStart
    /\ ucfg \in UploaderConfigs
    /\ call = NoCall
    /\ ret = NoRet

UpNext ==
    \/ UpPreBuild
    \/ UpBuild
    \/ UpExport
    \/ UpDial
    \/ UpScpStart
    \/ UpScpHeader
    \/ UpScpCopy
    \/ UpScpEnd
    \/ UpPostBuild
    \/ UpCleanup

UpSpec == UpInit /\ [][UpNext]_vars

\* The two programs together: the uploader pushes into the directory the
\* watcher watches, and nothing else writes there or disturbs the watcher.
SysInit ==
    /\ fs = [p \in Paths |-> "absent"]
    /\ scp = ScpIdle
    /\ events = <<>>
    /\ errors = 0
    /\ chanClosed = FALSE
    /\ ctxDone = FALSE
    /\ runPc = "start"
    /\ active = {}
    /\ nextId = 1
    /\ ignored = 0
    /\ lastCycle = NoCycle
    /\ container \in {NoInstance, PriorInstance}
    /\ cfg \in Configs
    /\ errChan = "empty"
    /\ supPc = "wait"
    /\ alive = TRUE
    /\ envOps = 0
    /\ up = UpStart
    /\ ucfg \in {c \in UploaderConfigs : ~c.tarballDir /\ ~c.keyPath}
    /\ call = NoCall
    /\ ret = NoRet

SysNext ==
    \/ UpNext
    \/ RunSetup
    \/ RunCtxDone
    \/ RunEvent
    \/ \E c \in active : Sleep(c)
    \/ \E c \in active : Exists(c)
    \/ \E c \in active : PreLoad(c)
    \/ \E c \in active : Load(c)
    \/ \E c \in active : StopContainer(c)
    \/ \E c \in active : RemoveContainer(c)
    \/ \E c \in active : StartContainer(c)
    \/ \E c \in active : PostLoad(c)
    \/ \E c \in active : Cleanup(c)
    \/ SupSignal
    \/ SupErr
    \/ ProcessExit

SysSpec == SysInit /\ [][SysNext]_vars

\* One call of a utility function, in a process that does nothing else.
UtilInit ==
    /\ fs = [p \in Paths |-> "absent"]
    /\ scp = ScpIdle
    /\ events = <<>>
    /\ errors = 0
    /\ chanClosed = FALSE
    /\ ctxDone = FALSE
    /\ runPc = "start"
    /\ active = {}
    /\ nextId = 1
    /\ ignored = 0
    /\ lastCycle = NoCycle
    /\ container \in {NoInstance, PriorInstance}
    /\ cfg = [preLoad |-> <<>>, postLoad |-> <<>>]
    /\ errChan = "empty"
    /\ supPc = "wait"
    /\ alive = TRUE
    /\ envOps = 0
    /\ up = UpOff
    /\ ucfg = NoUploader
    /\ call \in UtilCalls
    /\ ret = NoRet

UtilNext ==
    \/ CallExecuteCommands
    \/ ExecSpawn
    \/ \E k \in 1..MaxKids : ExecKidExit(k)
    \/ ExecShExit
    \/ ExecDeadline
    \/ ExecReturn
    \/ CallScpUpload
    \/ ScpSendHeader
    \/ ScpCopyByte
    \/ ScpSendEndMarker
    \/ ScpCloseStdin
    \/ ScpWait
    \/ CallCreateSSHClient
    \/ CallStartContainer
    \/ CallGetContainerStatus
    \/ CallGetContainerLogs

UtilSpec == UtilInit /\ [][UtilNext]_vars

\* ------------------------------------------------------------------ claims

\* A pending event that would start a cycle.
Qualifying(ev) == HasSuffix(ev.name, TarSuffix) /\ ev.op \cap {"Create", "Write"} # {}

\* Cycle c takes a step (or ends) in this transition.
Stepped(c) == c \in active /\ c \notin active'

\* Cycle c ends in this transition.
Ended(c) == c \in active /\ \A d \in active' : d.id # c.id

\* C1: at most one per-event cycle is in progress at any time, and while a
\* cycle (its debounce wait included) is running the loop is inside the
\* handler, so no event is dequeued and no step of another cycle interleaves.
C1_OneCycleAtATime ==
    /\ Cardinality(active) <= 1
    /\ active # {} => runPc = "handling"

\* A cycle is between its stop and its start while a qualifying event for
\* another archive is pending.
C1_Witness ==
    \E c \in active :
        /\ c.pc \in {"remove", "start"}
        /\ \E i \in 1..Len(events) : Qualifying(events[i]) /\ events[i].name # c.path

\* C2: after a cycle that processTarball reports as successful, an instance
\* with the managed name exists, it is the one this cycle's start step
\* created, and so none from a prior cycle remains.
C2_SuccessLeavesNewInstance ==
    lastCycle.result = "ok" =>
        /\ container.state # "absent"
        /\ container.gen = lastCycle.id

\* A successful cycle that began with a running instance of a prior cycle.
C2_Witness ==
    /\ lastCycle.result = "ok"
    /\ lastCycle.c0.state = "running"
    /\ lastCycle.c0.gen # lastCycle.id
    /\ container = [gen |-> lastCycle.id, state |-> "running"]

\* C3: the load step never runs on an archive while the remote copy of that
\* archive is still in progress.
C3_NoLoadDuringCopy ==
    [][\A c \in active :
          (c.pc = "load" /\ Stepped(c)) => ~(scp.pc = "copy" /\ scp.path = c.path)]_vars

\* C4: when the watcher process has ended, no cycle that got past its load
\* step is left unfinished.
C4_InFlightCycleCompletes ==
    ~alive => \A c \in active : "load" \notin Range(c.did)

\* C5: once Stop() has been called and no cycle is in progress, no further
\* event is dequeued and no new cycle begins.
C5_NoDequeueAfterStop ==
    [][(ctxDone /\ active = {}) =>
          (active' = {} /\ Len(events') >= Len(events))]_vars

\* C6: a cycle in which some step failed ends with the loop back in its
\* select, Run not returned and nothing sent to the supervisor.
C6_FailedCycleKeepsLoop ==
    [][\A c \in active :
          (Ended(c) /\ lastCycle'.failed # {}) =>
              (runPc' = "select" /\ errChan' = errChan /\ alive')]_vars

\* After a failed cycle the loop has dequeued the next qualifying event and
\* its cycle has reached the start step.
C6_Witness ==
    \E c \in active : c.after = "err" /\ c.pc = "start"

\* C7: dequeuing an event whose path does not end in ".tar" changes nothing
\* but the queue: no cycle, no wait, no hook, no load, no change of the
\* instance or of the files.
C7_NonArchiveIgnored ==
    [][(events # <<>> /\ events' = Tail(events)
          /\ ~HasSuffix(Head(events).name, TarSuffix)) =>
          UNCHANGED <<fs, scp, runPc, active, nextId, lastCycle, container,
                      errChan>>]_vars

\* Events on non-archive paths were dequeued, no cycle ever began and the
\* loop is idle again.
C7_Witness ==
    /\ ignored = 2 /\ nextId = 1 /\ events = <<>> /\ runPc = "select"
    /\ fs[NotArchive] = "absent" /\ envOps = 2
    /\ \A p \in UploadPaths : fs[p] = "absent"

\* C8: when the archive is gone at the existence check, the cycle ends there
\* with an error: no later step has run and the instance is as it was.
C8_MissingArchiveAborts ==
    /\ \A c \in active : "exists" \notin c.failed
    /\ "exists" \in lastCycle.failed =>
           /\ lastCycle.result = "err"
           /\ lastCycle.did = <<"sleep", "exists">>
           /\ container = lastCycle.c0

\* A cycle found its archive removed; the instance is still running.
C8_Witness ==
    /\ "exists" \in lastCycle.failed
    /\ container.state = "running"

\* C9: when the load step fails, the cycle ends there with an error: no
\* stop, remove, start, post-load hook or deletion has run and the instance
\* is as it was.
C9_LoadFailureAborts ==
    /\ \A c \in active : "load" \notin c.failed
    /\ "load" \in lastCycle.failed =>
           /\ lastCycle.result = "err"
           /\ lastCycle.did = <<"sleep", "exists", "preload", "load">>
           /\ container = lastCycle.c0

\* A load failed on an archive that is still there; the instance still runs.
C9_Witness ==
    /\ "load" \in lastCycle.failed
    /\ container.state = "running"
    /\ fs[lastCycle.path] = "complete"

\* C10: when a command of the pre-load Hook Set fails, the cycle ends there
\* with an error: no load, stop, remove, start, post-load hook or deletion
\* has run and the instance is as it was.
C10_PreLoadFailureAborts ==
    /\ \A c \in active : "preload" \notin c.failed
    /\ "preload" \in lastCycle.failed =>
           /\ lastCycle.result = "err"
           /\ lastCycle.did = <<"sleep", "exists", "preload">>
           /\ container = lastCycle.c0

\* A pre-load hook failed; the archive is still there and the instance runs.
C10_Witness ==
    /\ "preload" \in lastCycle.failed
    /\ container.state = "running"
    /\ fs[lastCycle.path] = "complete"

\* C11 (as amended): when a cycle ends because its start command failed, the
\* cycle is reported as an error and no instance made by this cycle is
\* running; an instance with the managed name is running at that point only
\* if it is the prior one and this cycle's stop command failed.
C11_StartFailureLeavesNoNewInstance ==
    /\ \A c \in active : "start" \notin c.failed
    /\ "start" \in lastCycle.failed =>
           /\ lastCycle.result = "err"
           /\ container.gen # lastCycle.id \/ container.state # "running"
           /\ container.state = "running" =>
                  /\ container = lastCycle.c0
                  /\ "stop" \in lastCycle.failed

\* The start of a cycle failed after the running instance was stopped and
\* removed: nothing runs under the managed name.
C11_Witness ==
    /\ "start" \in lastCycle.failed
    /\ lastCycle.c0.state = "running"
    /\ lastCycle.failed = {"start"}
    /\ container.state # "running"

\* C11 as stated: when a cycle ends because its start command failed, the
\* cycle is reported as an error and no instance with the managed name runs.
C11_Counterexample ==
    "start" \in lastCycle.failed =>
        /\ lastCycle.result = "err"
        /\ container.state # "running"

\* C12: a failure of a post-load hook is swallowed: the instance this cycle
\* started keeps running, the deletion of the archive still runs, and the
\* cycle is reported as successful.
C12_PostLoadFailureSwallowed ==
    /\ \A c \in active :
           "postload" \in c.failed =>
               /\ c.pc = "cleanup"
               /\ container = [state |-> "running", gen |-> c.id]
    /\ "postload" \in lastCycle.failed =>
           /\ lastCycle.result = "ok"
           /\ lastCycle.did = <<"sleep", "exists", "preload", "load", "stop",
                                "remove", "start", "postload", "cleanup">>
           /\ container = [state |-> "running", gen |-> lastCycle.id]

\* A post-load hook failed in a cycle that then deleted its archive.
C12_Witness ==
    /\ "postload" \in lastCycle.failed
    /\ "cleanup" \notin lastCycle.failed
    /\ fs[lastCycle.path] = "absent"

\* C13: an archive for which a cycle was started is deleted from the watched
\* directory whatever the outcome of the cycle: once the cycle is over and
\* the loop waits with no event pending, the archive is gone.
C13_ArchiveEventuallyDeleted ==
    (lastCycle.result # "none" /\ Watching /\ runPc = "select" /\ events = <<>>)
        => fs[lastCycle.path] = "absent"

\* Run never got as far as watching: its setup failed.
SetupFailed == events = <<>> /\ errors = 0 /\ nextId = 1 /\ ignored = 0

\* C15 (as amended): Run returns nil only after Stop() was called, and it
\* otherwise returns only an error of the loop itself: the watch setup
\* failed or a notification channel was closed.
C15_RunReturnsOnStopOrLoopError ==
    /\ runPc = "returned" => ctxDone
    /\ runPc = "failed" => chanClosed \/ SetupFailed

\* Run returned nil after Stop(), having run a cycle before.
C15_Witness ==
    /\ runPc = "returned"
    /\ ctxDone
    /\ lastCycle.result # "none"

\* C15 as stated: Run never returns unless Stop() has been called before.
C15_Counterexample == runPc \in {"returned", "failed"} => ctxDone

\* C16: the supervisor returns an error only when Run returned an error of
\* the loop itself (setup failure or closed channel); the end of a cycle,
\* whatever its result, and an error read from the watcher's error channel
\* leave the loop selecting and put nothing on the supervisor's channel.
C16_OnlyLoopErrorsReachSupervisor ==
    /\ [](supPc = "failed" => (runPc = "failed" /\ (chanClosed \/ SetupFailed)))
    /\ [][((\E c \in active : Ended(c)) \/ errors' < errors) =>
              (runPc' = "select" /\ errChan' = errChan /\ supPc' = supPc)]_vars

\* The supervisor failed on a closed channel, after a cycle that had failed
\* without reaching it.
C16_Witness ==
    /\ supPc = "failed"
    /\ chanClosed
    /\ lastCycle.result = "err"

\* C17: a cycle that started with a running instance of the managed name
\* has, at every point, some instance with that name running.
C17_ZeroDowntime ==
    \A c \in active : c.c0.state = "running" => container.state = "running"

UpOrder == <<"prebuild", "build", "export", "transfer", "postbuild", "cleanup">>

\* C18: Uploader.Run runs its steps in the order pre-build hooks, build,
\* export, remote copy, post-build hooks, local cleanup, and when one of the
\* first five fails Run returns an error, that step being the last one run.
C18_UploaderOrderFailFast ==
    /\ Len(up.did) <= Len(UpOrder)
    /\ \A i \in 1..Len(up.did) : up.did[i] = UpOrder[i]
    /\ \A step \in up.failed \ {"cleanup"} :
           /\ up.pc = "failed"
           /\ up.did[Len(up.did)] = step
    /\ up.pc = "failed" => up.failed # {}
    /\ up.pc = "returned" => up.did = UpOrder

\* The post-build hooks failed after a complete remote copy: Run returned an
\* error and the local cleanup did not run.
C18_Witness ==
    /\ up.pc = "failed"
    /\ up.failed = {"postbuild"}
    /\ fs[up.path] = "complete"
    /\ up.local = "written"

\* C19: when docker save exits with status 0 and the archive file does not
\* exist afterwards, Run fails at the export step and no ssh connection or
\* session is ever opened.
C19_MissingArchiveFailsExport ==
    (up.save = "ok" /\ up.local = "absent") =>
        /\ up.pc = "failed"
        /\ up.err = "export"
        /\ up.did = <<"prebuild", "build", "export">>
        /\ up.conn = "none"

\* docker save reported success and left no file.
C19_Witness ==
    /\ up.save = "ok"
    /\ up.local = "absent"
    /\ "export" \in up.failed

\* C20: when the transfer step fails, in the session establishment or in the
\* copy, Run returns an error and the local archive the export step made is
\* still there, untouched.
C20_TransferFailureKeepsArchive ==
    "transfer" \in up.failed =>
        /\ up.pc = "failed"
        /\ up.err = "transfer"
        /\ up.local = "written"
        /\ "cleanup" \notin Range(up.did)

\* The copy failed half way: the remote file is partial, the connection
\* closed, the local archive kept.
C20_Witness ==
    /\ "transfer" \in up.failed
    /\ up.conn = "closed"
    /\ fs[up.path] = "partial"
    /\ up.local = "written"

\* Run is over.
UpOver == up.pc \in {"returned", "failed"}

\* The transfer step of this run succeeded.
UpTransferred ==
    /\ "transfer" \in Range(up.did)
    /\ "transfer" \notin up.failed
    /\ up.pc \in {"postbuild", "cleanup", "returned", "failed"}

\* C21 (as amended): when the remote copy and the post-build hooks have
\* succeeded, Run calls the deletion of the local archive before it returns,
\* and the archive is gone unless that deletion failed; when the post-build
\* hooks fail after a successful copy, Run returns the error at once and the
\* transferred archive stays on the build host.
C21_TransferredArchiveDeleted ==
    /\ up.pc = "returned" =>
           /\ UpTransferred
           /\ "cleanup" \in Range(up.did)
           /\ "cleanup" \notin up.failed => up.local = "removed"
    /\ (up.pc = "failed" /\ UpTransferred) =>
           /\ up.failed = {"postbuild"}
           /\ up.local = "written"

\* Run returned nil: the archive is on the remote host and no longer local.
C21_Witness ==
    /\ up.pc = "returned"
    /\ up.local = "removed"
    /\ fs[up.path] = "complete"

\* C21 as stated: whenever the remote copy succeeded, the deletion of the
\* local archive has been attempted by the time Run returns.
C21_Counterexample ==
    (UpOver /\ UpTransferred) => "cleanup" \in Range(up.did)

\* C22: when the deletion of the local archive fails after the five steps
\* before it succeeded, Run returns nil.
C22_CleanupFailureNotFatal ==
    "cleanup" \in up.failed =>
        /\ up.pc = "returned"
        /\ up.err = "none"
        /\ up.failed = {"cleanup"}
        /\ up.local = "written"

\* The deletion failed in a run that returned nil.
C22_Witness ==
    /\ "cleanup" \in up.failed
    /\ up.pc = "returned"
    /\ fs[up.path] = "complete"

\* The indices of the non-blank commands of a list, in list order.
NonBlank(commands) == {i \in 1..Len(commands) : ~IsBlank(commands[i])}

\* C23: ExecuteCommands runs the non-blank commands in list order, skipping
\* none, stops at the first one that does not succeed and returns its
\* failure, so nothing after it runs; it returns nil only if every non-blank
\* command succeeded.
C23_ExecuteCommandsFailFast ==
    (call.fn = "ExecuteCommands" /\ ret # NoRet) =>
        LET ran == ret.ran
            n == Len(ran)
        IN  /\ \A k \in 1..n : ran[k] \in NonBlank(call.commands)
            /\ \A k \in 1..(n - 1) : ran[k] < ran[k + 1] /\ ret.ok[ran[k]]
            /\ \A i \in NonBlank(call.commands) :
                   (n > 0 /\ i < ran[n]) => i \in Range(ran)
            /\ ret.err <=> (n > 0 /\ ~ret.ok[ran[n]])
            /\ ~ret.err => Range(ran) = NonBlank(call.commands)

\* The first command succeeded, the second is blank, the third failed.
C23_Witness ==
    /\ call.fn = "ExecuteCommands" /\ ret # NoRet
    /\ call.commands = <<CmdEcho, CmdBlank, CmdEcho>>
    /\ ret.ran = <<1, 3>>
    /\ ret.err

\* C25: when ExecuteCommand returns the timeout error, the shell and every
\* process it started have been terminated.
C25_TimeoutKillsProcessTree ==
    (call.fn = "ExecuteCommand" /\ ret # NoRet) =>
        ((ret.pc = "returned" /\ ret.result = "TimedOut") =>
             (ret.sh # "running" /\ ret.kids = {}))

\* An empty Hook Set spawns no process and gives no error.
NoOp(commands) ==
    \A ok \in [1..Len(commands) -> BOOLEAN] :
        ExecuteHooks(commands, ok) = [err |-> FALSE, ran |-> <<>>]

\* C24: with an empty Hook Set each of the four hook phases spawns no
\* process, succeeds, and hands over to the next step of its pipeline:
\* pre-load to load, post-load to the deletion of the archive, pre-build to
\* build, post-build to the local cleanup.
C24_EmptyHookSetNoOp ==
    /\ [](\A h \in {cfg.preLoad, cfg.postLoad, ucfg.preBuild, ucfg.postBuild} :
              Len(h) = 0 => NoOp(h))
    /\ [][/\ \A c \in active :
                (Stepped(c) /\ c.pc = "preload" /\ Len(cfg.preLoad) = 0) =>
                    \E d \in active' :
                        d = [c EXCEPT !.pc = "load", !.did = Append(@, "preload")]
          /\ \A c \in active :
                (Stepped(c) /\ c.pc = "postload" /\ Len(cfg.postLoad) = 0) =>
                    \E d \in active' :
                        d = [c EXCEPT !.pc = "cleanup", !.did = Append(@, "postload")]
          /\ (up.pc = "prebuild" /\ up' # up /\ Len(ucfg.preBuild) = 0) =>
                up' = [up EXCEPT !.pc = "build", !.did = Append(@, "prebuild")]
          /\ (up.pc = "postbuild" /\ up' # up /\ Len(ucfg.postBuild) = 0) =>
                up' = [up EXCEPT !.pc = "cleanup", !.did = Append(@, "postbuild")]
         ]_vars

\* With all four Hook Sets empty the uploader returned nil and the watcher
\* finished a successful cycle on what it pushed.
C24_Witness ==
    /\ Len(cfg.preLoad) = 0 /\ Len(cfg.postLoad) = 0
    /\ Len(ucfg.preBuild) = 0 /\ Len(ucfg.postBuild) = 0
    /\ up.pc = "returned"
    /\ lastCycle.result = "ok"
    /\ lastCycle.path = up.path

\* C26: after a successful push the file is at RemoteUploadPath/base name
\* with the length, the content and the permission bits of the source, and
\* the length announced in the header is the number of bytes streamed.
C26_PushRoundTrip ==
    (call.fn = "scpUpload" /\ ret # NoRet /\ ~ret.err) =>
        /\ ret.remote.exists
        /\ ret.remote.path = Append(RemoteDir, call.local[Len(call.local)])
        /\ Len(ret.remote.content) = Len(call.content)
        /\ ret.remote.content = call.content
        /\ ret.remote.perm = call.perm
        /\ ret.announced = ret.streamed

\* The positions of Run inside uploadTarball.
TransferPcs == {"transfer", "scpStart", "scpHeader", "scpCopy", "scpEnd"}

\* C27: the transfer succeeds only out of its last step, session.Wait, with
\* the remote file complete and the remote peer gone; a failure of any step
\* makes Run return the transfer error; and a transfer is entered only once,
\* after the export, never again after it failed or ended.
C27_TransferAllOrNothing ==
    /\ [](UpTransferred =>
              (fs[up.path] = "complete" /\ scp = ScpIdle /\ up.conn = "closed"))
    /\ []("transfer" \in up.failed => (up.pc = "failed" /\ up.err = "transfer"))
    /\ [][(up.pc \in TransferPcs /\ up'.pc \notin TransferPcs) =>
              \/ up.pc = "scpEnd" /\ up'.pc = "postbuild"
              \/ up'.pc = "failed" /\ "transfer" \in up'.failed]_vars
    /\ [][(up.pc \notin TransferPcs /\ up'.pc \in TransferPcs) =>
              (up.pc = "export" /\ "transfer" \notin Range(up.did))]_vars

\* The remote peer wrote the whole file and then reported a failure: the
\* transfer failed.
C27_Witness ==
    /\ "transfer" \in up.failed
    /\ fs[up.path] = "complete"
    /\ up.conn = "closed"

\* C28: the remote host is never dialed without a private key having been
\* read and parsed: a configuration without a key path fails instead.
C28_AlwaysPrivateKey ==
    (call.fn = "createSSHClient" /\ ret # NoRet) =>
        /\ ret.dialed => (call.keySet /\ call.keyOk /\ "publickey" \in ret.auth)
        /\ ~call.keySet => (ret.err /\ ~ret.dialed)

\* C29: the host key goes unchecked only when there is no known_hosts file:
\* whenever the file exists the host is dialed with checking against it.
C29_HostKeyCheckedWhenStoreExists ==
    (call.fn = "createSSHClient" /\ ret # NoRet /\ ret.dialed) =>
        (ret.hostKey = "insecure" <=> call.known = "absent")

\* C30: GetContainerStatus returns the empty string and no error when no
\* instance with the managed name exists, and an error only when the query
\* command fails; it and GetContainerLogs leave the instance and the
\* archives as they are.
C30_StatusReadOnly ==
    /\ []((call.fn = "GetContainerStatus" /\ ret # NoRet) =>
              /\ ret.err <=> ~call.cmdOk
              /\ (container.state = "absent" /\ call.cmdOk) => ret.out = <<>>)
    /\ [][(call.fn \in {"GetContainerStatus", "GetContainerLogs"}) =>
              (container' = container /\ fs' = fs)]_vars

\* The steps of a cycle in the order handleFileEvent and processTarball
\* make them.
CycleOrder == <<"sleep", "exists", "preload", "load", "stop", "remove",
                "start", "postload", "cleanup">>

\* s is an initial part of t.
IsPrefix(s, t) == Len(s) <= Len(t) /\ s = SubSeq(t, 1, Len(s))

\* C31: every cycle runs its steps in the order debounce wait, existence
\* check, pre-load hooks, load, stop, remove, start, post-load hooks,
\* deletion: the steps done are always an initial part of that order, the
\* step a cycle is at is the one after the last it finished, and the stop
\* and the remove run only after a load that succeeded.
C31_FixedStepOrder ==
    /\ \A c \in active :
           /\ IsPrefix(c.did, CycleOrder)
           /\ Len(c.did) < Len(CycleOrder)
           /\ c.pc = CycleOrder[Len(c.did) + 1]
           /\ c.pc \in {"stop", "remove"} => "load" \notin c.failed
    /\ IsPrefix(lastCycle.did, CycleOrder)
    /\ "stop" \in Range(lastCycle.did) =>
           /\ "load" \notin lastCycle.failed
           /\ lastCycle.did[4] = "load"

\* A cycle ran all nine steps and replaced a running instance.
C31_Witness ==
    /\ lastCycle.did = CycleOrder
    /\ lastCycle.c0.state = "running"
    /\ container = [gen |-> lastCycle.id, state |-> "running"]

\* C32: the stop/remove step is best-effort: a cycle whose stop or remove
\* command failed goes on, the remove runs after a failed stop, no cycle
\* ends at its stop or at its remove, and every finished cycle whose load
\* succeeded has run stop, remove and start, in that order.
C32_StopRemoveBestEffort ==
    /\ \A c \in active :
           c.failed \cap {"stop", "remove"} # {} =>
               /\ c.pc \in {"remove", "start", "postload", "cleanup"}
               /\ "stop" \in c.failed =>
                      (c.pc = "remove" \/ "remove" \in Range(c.did))
    /\ lastCycle.did # <<>> =>
           lastCycle.did[Len(lastCycle.did)] \notin {"stop", "remove"}
    /\ ("load" \in Range(lastCycle.did) /\ "load" \notin lastCycle.failed) =>
           SubSeq(lastCycle.did, 5, 7) = <<"stop", "remove", "start">>

\* With no prior instance the stop and the remove both failed, and the
\* cycle started its instance and ended well.
C32_Witness ==
    /\ lastCycle.c0 = NoInstance
    /\ lastCycle.failed = {"stop", "remove"}
    /\ lastCycle.result = "ok"
    /\ container = [gen |-> lastCycle.id, state |-> "running"]

\* The loop takes the event at the head of the queue in this transition.
Dequeued == events # <<>> /\ events' = Tail(events)

\* C33: when an event for a path with the archive suffix is dequeued, a
\* create and a write start the same thing, a cycle for that path at the
\* beginning of its debounce wait with the loop inside the handler; any
\* other operation (remove, rename, chmod) starts no wait and no cycle and
\* leaves the loop, the files and the instance as they are.
C33_CreateAndWriteAlike ==
    [][(Dequeued /\ HasSuffix(Head(events).name, TarSuffix)) =>
          IF Head(events).op \cap {"Create", "Write"} # {}
          THEN /\ runPc' = "handling"
               /\ nextId' = nextId + 1
               /\ \E d \in active' :
                      /\ active' = active \cup {d}
                      /\ d.id = nextId /\ d.path = Head(events).name
                      /\ d.pc = "sleep" /\ d.sleepLeft = DebounceSeconds
                      /\ d.did = <<>> /\ d.failed = {}
          ELSE UNCHANGED <<fs, scp, runPc, active, nextId, lastCycle,
                           container, errChan>>]_vars

\* An archive was created and then written: the create started a cycle that
\* deleted the archive, the write started a second one that found it gone,
\* and the remove event of the deletion was dequeued without effect.
C33_Witness ==
    /\ nextId = 3 /\ ignored = 1 /\ envOps = 2 /\ events = <<>>
    /\ lastCycle.id = 2
    /\ lastCycle.prev = "deleted"
    /\ "exists" \in lastCycle.failed

\* Everything a complete push of `content` puts on the command channel.
FullPush(line, content) ==
    <<WireHeader(line)>> \o [i \in 1..Len(content) |-> WireByte(content[i])]
        \o <<WireEnd, WireClose, WireWait>>

\* C34: what scpUpload has put on the command channel is at every moment an
\* initial part of: the header line (mode, length, base name), the bytes of
\* the file in file order, one null byte, the close of the input side, the
\* wait for the remote exit; each of them is there once, and scpUpload
\* returns nil only when all of it is there.
C34_PushProtocolOrder ==
    (call.fn = "scpSession" /\ ret # NoRet) =>
        LET line == [mode |-> <<0, 6, 4, 4>>, size |-> Len(call.content),
                     name |-> call.local[Len(call.local)]]
            full == FullPush(line, call.content)
        IN  /\ IsPrefix(ret.wire, full)
            /\ (ret.pc = "returned" /\ ret.err = "none") => ret.wire = full
            /\ (ret.pc = "returned" /\ ret.err # "none") =>
                   (ret.wire # full \/ ret.err = "wait")

\* A file of two bytes, the first one a null byte, was pushed to the end.
C34_Witness ==
    /\ call.fn = "scpSession" /\ ret # NoRet
    /\ call.content = <<0, 1>>
    /\ ret.pc = "returned" /\ ret.err = "none"
    /\ Len(ret.wire) = 6

\* The phases of Run whose error can be returned.
UpPhases == {"prebuild", "build", "export", "transfer", "postbuild"}

\* C35: when Run fails, the error it returns carries the text of exactly one
\* phase, and the texts of the phases differ; that phase is the only one
\* that failed and the last one that ran, so it is the first failure; and a
\* run that has not failed reports no error.
C35_ErrorNamesFirstFailedPhase ==
    /\ \A s \in UpPhases, t \in UpPhases :
           UpErrorText(s) = UpErrorText(t) => s = t
    /\ up.pc = "failed" =>
           /\ up.err \in UpPhases
           /\ up.failed = {up.err}
           /\ up.did[Len(up.did)] = up.err
           /\ \A t \in UpPhases \ {up.err} : UpErrorText(up.err) # UpErrorText(t)
    /\ up.pc # "failed" => (up.err = "none" /\ up.failed \cap UpPhases = {})

\* The pre-build hooks ran and succeeded, then the build failed.
C35_Witness ==
    /\ up.pc = "failed"
    /\ UpErrorText(up.err) = "docker build failed"
    /\ up.did = <<"prebuild", "build">>
    /\ Len(ucfg.preBuild) > 0

\* C36: ExecuteCommand returns one of three outcomes: TimedOut exactly when
\* the deadline passed before the command had finished (the shell was
\* killed), else the failure when the shell did not exit with status 0,
\* else success; a command whose shell exited with status 0 before the
\* deadline is reported as a success.
C36_ThreeOutcomes ==
    (call.fn = "ExecuteCommand" /\ ret # NoRet /\ ret.pc = "returned") =>
        /\ ret.result \in {"TimedOut", "Failed", "Success"}
        /\ ret.result = "TimedOut" <=> ret.sh = "killed"
        /\ ret.result = "Failed" <=> (ret.sh = "exited" /\ ret.exit # 0)
        /\ ret.result = "Success" <=> (ret.sh = "exited" /\ ret.exit = 0)

\* The texts of the arguments of cmd written after the option flag, in order.
ArgsOf(cmd, flag) ==
    LET sel == SelectSeq(cmd, LAMBDA a : a.flag = flag)
    IN  [i \in 1..Len(sel) |-> sel[i].text]

C38_ShutdownLive ==
    (ctxDone /\ ~alive) => runPc \in {"returned", "failed"}

\* C39: the loop never triggers itself: the remove event that a cycle's own
\* deletion of its archive puts in the queue starts no cycle, so the loop
\* has started no more cycles, and made no more instances, than there were
\* operations by others on the watched directory; one arrival gives at most
\* one cycle and one new instance.
C39_NoSelfTrigger ==
    /\ nextId - 1 <= envOps
    /\ container.gen <= envOps
    /\ \A c \in active : c.id <= envOps

\* One archive was created, its cycle replaced the instance and deleted the
\* archive, and the remove event of that deletion was dequeued: the loop is
\* idle, with the instance of that cycle running.
C39_Witness ==
    /\ envOps = 1 /\ nextId = 2 /\ ignored = 1
    /\ events = <<>> /\ active = {} /\ runPc = "select"
    /\ lastCycle.id = 1 /\ lastCycle.result = "ok"
    /\ fs[lastCycle.path] = "absent"
    /\ lastCycle.c0.state = "running"
    /\ container = [gen |-> 1, state |-> "running"]

\* The loop is idle after a cycle that was aborted.
IdleAfterAbort == active = {} /\ lastCycle.result = "err"

\* C40: a failed cycle is not retried: the step that aborts a cycle leaves
\* the files as they are, the aborted cycle has not run the deletion, and
\* the loop goes back to its select; from then on the instance stays as it
\* is, the archive is removed only by others, and a cycle begins only when
\* a create or write event for an archive path is dequeued.
C40_FailedCycleNotRetried ==
    /\ [][\A c \in active :
              (Ended(c) /\ lastCycle'.result = "err") =>
                  /\ fs' = fs
                  /\ "cleanup" \notin Range(lastCycle'.did)
                  /\ active' = {} /\ runPc' = "select"]_vars
    /\ [][IdleAfterAbort =>
              /\ container' = container
              /\ \A p \in Paths :
                     (fs[p] # "absent" /\ fs'[p] = "absent") => envOps' = envOps + 1
              /\ active' # {} =>
                     /\ Dequeued /\ Qualifying(Head(events))
                     /\ \A d \in active' : d.pc = "sleep" /\ d.did = <<>>]_vars

\* The start of a cycle failed; the loop is idle with nothing queued and the
\* archive is still in the watched directory.
C40_Witness ==
    /\ IdleAfterAbort
    /\ lastCycle.failed = {"start"}
    /\ fs[lastCycle.path] = "complete"
    /\ runPc = "select" /\ events = <<>> /\ alive

====
